---- MODULE Spec2Model ----
(***************************************************************************)
(* A model of libpapyrus' lexer (src/src/lexer.rs), of the source text    *)
(* helpers (src/src/lib.rs) and of the diagnostic emitter                  *)
(* (src/src/errors.rs).                                                    *)
(*                                                                         *)
(* Bytes are the integers 0..255, a string is a sequence of bytes.  The    *)
(* values pushed into a Rust String with `b as char` are kept as the       *)
(* sequence of their code points; Utf8Len gives String::len() of it.       *)
(*                                                                         *)
(* usize values: a span computed with a subtraction that underflows is     *)
(* either a panic (overflow checks on) or the wrapped value 2^64 - k       *)
(* (overflow checks off).  A wrapped value 2^64 - k is written -k, and     *)
(* UsizeLt orders such values above every small value.                     *)
(***************************************************************************)
EXTENDS Integers, Sequences, FiniteSets, TLC

\* ---------------------------------------------------------------- bounds
\* number of fragments an input is made of
MaxLen == 3
\* number of next_token calls made after the cursor reached the end
MaxEofCalls == 2

\* ------------------------------------------------------------- constants
EOF_CHAR == 0
I32_MAX == 2147483647

Ch == [nul |-> 0, tab |-> 9, lf |-> 10, cr |-> 13, sp |-> 32, bang |-> 33,
       quote |-> 34, pct |-> 37, amp |-> 38, lpar |-> 40, rpar |-> 41,
       star |-> 42, plus |-> 43, comma |-> 44, minus |-> 45, dot |-> 46,
       slash |-> 47, d0 |-> 48, d9 |-> 57, colon |-> 58, semi |-> 59,
       lt |-> 60, eq |-> 61, gt |-> 62, A |-> 65, F |-> 70, Z |-> 90,
       lsq |-> 91, bslash |-> 92, rsq |-> 93, us |-> 95, a |-> 97,
       f |-> 102, n |-> 110, t |-> 116, x |-> 120, z |-> 122,
       lbrace |-> 123, pipe |-> 124, rbrace |-> 125]

Games == {"TESV", "FO4"}

\* ------------------------------------------------------- byte predicates
is_whitespace(byte) == byte = Ch.sp \/ byte = Ch.tab

is_newline_start(byte) == byte = Ch.cr \/ byte = Ch.lf

is_id_start(byte) ==
    \/ (Ch.a <= byte /\ byte <= Ch.z)
    \/ (Ch.A <= byte /\ byte <= Ch.Z)
    \/ byte = Ch.us

is_id_continue_no_gate(byte, g) ==
    \/ is_id_start(byte)
    \/ (Ch.d0 <= byte /\ byte <= Ch.d9)
    \/ byte = Ch.colon

is_id_continue(byte, g) ==
    \/ is_id_start(byte)
    \/ (Ch.d0 <= byte /\ byte <= Ch.d9)
    \/ (g = "FO4" /\ byte = Ch.colon)

is_digit(byte) == Ch.d0 <= byte /\ byte <= Ch.d9

is_hex_digit(byte) ==
    \/ is_digit(byte)
    \/ (Ch.a <= byte /\ byte <= Ch.f)
    \/ (Ch.A <= byte /\ byte <= Ch.F)

\* ------------------------------------------------------- String helpers
\* String::len() of a value built with push(b as char): chars >= 0x80 take 2 bytes
RECURSIVE Utf8Len(_)
Utf8Len(value) ==
    IF value = <<>> THEN 0
    ELSE (IF Head(value) < 128 THEN 1 ELSE 2) + Utf8Len(Tail(value))

\* value.find('\n').unwrap_or(0): the byte index of the first newline char
RECURSIVE FindNewline(_, _)
FindNewline(value, at) ==
    IF value = <<>> THEN 0
    ELSE IF Head(value) = Ch.lf THEN at
    ELSE FindNewline(Tail(value), at + (IF Head(value) < 128 THEN 1 ELSE 2))

\* the bytes of a String holding the chars `value` (its UTF-8 encoding)
RECURSIVE Utf8Encode(_)
Utf8Encode(value) ==
    IF value = <<>> THEN <<>>
    ELSE (IF Head(value) < 128 THEN <<Head(value)>>
          ELSE <<192 + (Head(value) \div 64), 128 + (Head(value) % 64)>>)
         \o Utf8Encode(Tail(value))

to_ascii_lowercase_byte_kept(b) == b

to_ascii_lowercase_byte(b) == IF Ch.A <= b /\ b <= Ch.Z THEN b + 32 ELSE b

to_ascii_lowercase(value) ==
    [i \in 1..Len(value) |-> to_ascii_lowercase_byte(value[i])]

\* usize comparison a < b, with wrapped values (written negative) on top
UsizeLt(a, b) ==
    IF a < 0 /\ b >= 0 THEN FALSE
    ELSE IF a >= 0 /\ b < 0 THEN TRUE
    ELSE a < b

\* ------------------------------------------------------ Source (lib.rs)
\* BufRead::read_line on a byte slice: the bytes through the first '\n'
RECURSIVE LineLen(_, _)
LineLen(content, i) ==
    IF i > Len(content) THEN Len(content)
    ELSE IF content[i] = Ch.lf THEN i
    ELSE LineLen(content, i + 1)

read_line(content) == SubSeq(content, 1, LineLen(content, 1))

after_line(content) == SubSeq(content, LineLen(content, 1) + 1, Len(content))

\* Source::lineno_from_offset.  Once read_line returns nothing, length is 0,
\* `offset < length` is false and nothing but line_num changes: the loop is
\* not left (hang).
RECURSIVE lineno_loop(_, _, _)
lineno_loop(content, offset, line_num) ==
    LET length == Len(read_line(content)) IN
    IF UsizeLt(offset, length)
    THEN [hang |-> FALSE, line |-> line_num, col |-> offset]
    ELSE IF length = 0
    THEN [hang |-> TRUE, line |-> line_num, col |-> offset]
    ELSE lineno_loop(after_line(content), offset - length, line_num + 1)

lineno_from_offset(content, offset) == lineno_loop(content, offset, 1)

\* Source::lines_from_linenos
RECURSIVE lines_loop(_, _, _, _, _)
lines_loop(content, lo, hi, line_num, lines) ==
    LET buf == read_line(content)
        l2 == IF lo <= line_num THEN Append(lines, buf) ELSE lines
    IN  IF line_num >= hi THEN l2
        ELSE lines_loop(after_line(content), lo, hi, line_num + 1, l2)

lines_from_linenos(content, lo, hi) == lines_loop(content, lo, hi, 1, <<>>)

\* ------------------------------------------------ ErrorBuilder (errors.rs)
RECURSIVE SumLen(_)
SumLen(ls) == IF ls = <<>> THEN 0 ELSE Len(Head(ls)) + SumLen(Tail(ls))

RECURSIVE Join(_)
Join(ls) == IF ls = <<>> THEN <<>> ELSE Head(ls) \o Join(Tail(ls))

\* ErrorBuilder::emit: the outcome and the highlight range of the snippet
emit(content, lo, hi, fatal) ==
    LET a == lineno_from_offset(content, lo)
        b == lineno_from_offset(content, hi)
        none == [source |-> <<>>, start |-> 0, end |-> 0]
    IN  IF a.hang \/ b.hang THEN [outcome |-> "hung"] @@ none
        ELSE
        LET source_list == lines_from_linenos(content, a.line, b.line)
            source_len == Len(source_list)
            hi1 == IF source_len > 1
                   THEN b.col + (Len(source_list[1]) - a.col)
                   ELSE b.col
            hi2 == IF source_len > 2
                   THEN hi1 + SumLen(SubSeq(source_list, 2, source_len - 1))
                   ELSE hi1
        IN  IF source_list = <<>> THEN [outcome |-> "bug"] @@ none
            ELSE [outcome |-> IF fatal THEN "unwound" ELSE "returned",
                  source |-> Join(source_list), start |-> a.col, end |-> hi2]

\* ------------------------------------------------------- Lexer (lexer.rs)
\* Lexer::cur_pos, for a lexer over initial_len bytes with `bytes` left
cur_pos_off_by_one(initial_len, bytes) == initial_len - Len(bytes) + 1

cur_pos(initial_len, bytes) == initial_len - Len(bytes)

is_eof(bytes) == Len(bytes) = 0

peek_byte(bytes) == IF bytes = <<>> THEN EOF_CHAR ELSE bytes[1]

\* the iterator after Bytes::next(): at the end it stays at the end
next_byte(bytes) == IF bytes = <<>> THEN <<>> ELSE Tail(bytes)

\* What a scanning routine hands back: the token kind with its payload, the
\* bytes left, and the diagnostic it asked ErrorBuilder to emit (if any).
Ok(kind, rest) ==
    [kind |-> kind, text |-> <<>>, num |-> 0, flag |-> FALSE, kw |-> "",
     rest |-> rest,
     emits |-> FALSE, fatal |-> FALSE, title |-> "", lo |-> 0, hi |-> 0]

OkText(kind, text, rest) == [Ok(kind, rest) EXCEPT !.text = text]

Warning(title, lo, hi, r) ==
    [r EXCEPT !.emits = TRUE, !.fatal = FALSE, !.title = title, !.lo = lo, !.hi = hi]

Fatal(title, lo, hi, rest) ==
    [Ok("none", rest) EXCEPT !.emits = TRUE, !.fatal = TRUE, !.title = title,
                             !.lo = lo, !.hi = hi]

has_equal_next(bytes, yes, no) ==
    IF peek_byte(bytes) = Ch.eq THEN Ok(yes, next_byte(bytes)) ELSE Ok(no, bytes)

RECURSIVE whitespace_loop(_)
whitespace_loop(bytes) ==
    IF is_whitespace(peek_byte(bytes)) THEN whitespace_loop(next_byte(bytes))
    ELSE bytes

whitespace(bytes) == Ok("Whitespace", whitespace_loop(bytes))

newline(first_byte, bytes) ==
    LET is_crlf == first_byte = Ch.cr IN
    [Ok("Newline", IF is_crlf /\ peek_byte(bytes) = Ch.lf
                   THEN next_byte(bytes) ELSE bytes)
        EXCEPT !.flag = is_crlf]

\* the loop of Lexer::documentation
RECURSIVE doc_loop(_, _)
doc_loop(bytes, value) ==
    IF bytes = <<>> THEN [terminated |-> FALSE, value |-> value, rest |-> bytes]
    ELSE IF Head(bytes) = Ch.rbrace
    THEN [terminated |-> TRUE, value |-> value, rest |-> Tail(bytes)]
    ELSE doc_loop(Tail(bytes), Append(value, Head(bytes)))

documentation(bytes, initial_len) ==
    LET l == doc_loop(bytes, <<>>) IN
    IF ~l.terminated
    THEN LET lo == cur_pos(initial_len, l.rest) - Utf8Len(l.value) - 1
             hi == lo + FindNewline(l.value, 0) + 1
         IN  Fatal("unterminated documentation block", lo, hi, l.rest)
    ELSE OkText("Doc", l.value, l.rest)

\* the loop of Lexer::block_comment
RECURSIVE block_loop(_, _)
block_loop(bytes, value) ==
    IF bytes = <<>> THEN [terminated |-> FALSE, value |-> value, rest |-> bytes]
    ELSE IF Head(bytes) = Ch.slash /\ peek_byte(Tail(bytes)) = Ch.semi
    THEN [terminated |-> TRUE, value |-> value, rest |-> next_byte(Tail(bytes))]
    ELSE block_loop(Tail(bytes), Append(value, Head(bytes)))

block_comment(bytes, initial_len) ==
    LET l == block_loop(next_byte(bytes), <<>>) IN
    IF ~l.terminated
    THEN LET lo == cur_pos(initial_len, l.rest) - Utf8Len(l.value) - 2
             hi == lo + FindNewline(l.value, 0) + 2
         IN  Fatal("unterminated block comment", lo, hi, l.rest)
    ELSE OkText("Comment", l.value, l.rest)

RECURSIVE line_loop(_, _)
line_loop(bytes, value) ==
    IF ~is_newline_start(peek_byte(bytes)) /\ ~is_eof(bytes)
    THEN line_loop(Tail(bytes), Append(value, Head(bytes)))
    ELSE [value |-> value, rest |-> bytes]

line_comment(bytes) ==
    LET l == line_loop(bytes, <<>>) IN OkText("Comment", l.value, l.rest)

\* the loop of Lexer::string; why: "closed", "newline", "eof" or "escape"
RECURSIVE string_loop(_, _)
string_loop(bytes, value) ==
    IF bytes = <<>> THEN [why |-> "eof", value |-> value, rest |-> bytes]
    ELSE
    LET b == Head(bytes)
        r == Tail(bytes)
    IN  IF b = Ch.quote THEN [why |-> "closed", value |-> value, rest |-> r]
        ELSE IF is_newline_start(b) THEN [why |-> "newline", value |-> value, rest |-> r]
        ELSE IF b = Ch.bslash
        THEN LET p == peek_byte(r) IN
             IF p = Ch.n THEN string_loop(next_byte(r), Append(value, Ch.lf))
             ELSE IF p = Ch.t THEN string_loop(next_byte(r), Append(value, Ch.tab))
             ELSE IF p = Ch.bslash THEN string_loop(next_byte(r), Append(value, Ch.bslash))
             ELSE IF p = Ch.quote THEN string_loop(next_byte(r), Append(value, Ch.quote))
             ELSE [why |-> "escape", value |-> value, rest |-> r]
        ELSE string_loop(r, Append(value, b))

string(bytes, initial_len) ==
    LET l == string_loop(bytes, <<>>)
        pos == cur_pos(initial_len, l.rest)
    IN  IF l.why = "escape"
        THEN Fatal("invalid escape character", pos - 1, pos + 1, l.rest)
        ELSE IF l.why # "closed"
        THEN LET lo == pos - Utf8Len(l.value) - 2
                 hi == lo + Utf8Len(l.value) + 1
             IN  Fatal("unterminated string", lo, hi, l.rest)
        ELSE OkText("Str", l.value, l.rest)

\* i32::from_str_radix on a string of digits of that radix (no sign): empty
\* input and a value above i32::MAX are errors (checked_mul, checked_add)
digit_value(b) ==
    IF is_digit(b) THEN b - Ch.d0
    ELSE IF Ch.a <= b /\ b <= Ch.f THEN b - Ch.a + 10
    ELSE b - Ch.A + 10

RECURSIVE radix_loop(_, _, _)
radix_loop(value, radix, acc) ==
    IF value = <<>> THEN [ok |-> TRUE, val |-> acc]
    ELSE LET d == digit_value(Head(value)) IN
         IF acc > (I32_MAX - d) \div radix THEN [ok |-> FALSE, val |-> 0]
         ELSE radix_loop(Tail(value), radix, acc * radix + d)

from_str_radix(value, radix) ==
    IF value = <<>> THEN [ok |-> FALSE, val |-> 0]
    ELSE radix_loop(value, radix, 0)

\* str::parse::<f32> on digits and dots starting with a digit: one dot
parse_f32_ok(value) == Cardinality({i \in 1..Len(value) : value[i] = Ch.dot}) = 1

RECURSIVE hex_loop(_, _)
hex_loop(bytes, value) ==
    IF ~is_eof(bytes) /\ is_hex_digit(peek_byte(bytes))
    THEN hex_loop(next_byte(bytes), Append(value, peek_byte(bytes)))
    ELSE [value |-> value, rest |-> bytes]

RECURSIVE decimal_loop(_, _, _)
decimal_loop(bytes, value, is_float) ==
    IF is_eof(bytes) THEN [value |-> value, is_float |-> is_float, rest |-> bytes]
    ELSE IF is_digit(peek_byte(bytes))
    THEN decimal_loop(next_byte(bytes), Append(value, peek_byte(bytes)), is_float)
    ELSE IF peek_byte(bytes) = Ch.dot
    THEN decimal_loop(next_byte(bytes), Append(value, Ch.dot), TRUE)
    ELSE [value |-> value, is_float |-> is_float, rest |-> bytes]

Integer(lit, is_hex, rest) == [Ok("Integer", rest) EXCEPT !.num = lit, !.flag = is_hex]

\* Lexer::number(first_digit), called with `bytes` left
number(first_digit, bytes, initial_len) ==
    IF first_digit = Ch.d0 /\ peek_byte(bytes) = Ch.x
    THEN LET l == hex_loop(next_byte(bytes), <<>>)
             p == from_str_radix(l.value, 16)
         IN  IF p.ok THEN Integer(p.val, TRUE, l.rest)
             ELSE LET hi == cur_pos(initial_len, l.rest)
                      lo == hi - Utf8Len(l.value) - 2
                  IN  Fatal("could not parse hex literal", lo, hi, l.rest)
    ELSE LET l == decimal_loop(bytes, <<first_digit>>, FALSE)
             hi == cur_pos(initial_len, l.rest)
             lo == hi - Utf8Len(l.value)
         IN  IF l.is_float
             THEN IF parse_f32_ok(l.value) THEN OkText("Float", l.value, l.rest)
                  ELSE Fatal("could not parse float literal", lo, hi, l.rest)
             ELSE LET p == from_str_radix(l.value, 10) IN
                  IF p.ok THEN Integer(p.val, FALSE, l.rest)
                  ELSE Fatal("could not parse integer literal", lo, hi, l.rest)

\* KwKind with #[strum(serialize_all = "lowercase")]: variant, serialization
KwTable == <<
       [name |-> "As", text |-> <<97, 115>>],
       [name |-> "Auto", text |-> <<97, 117, 116, 111>>],
       [name |-> "AutoReadOnly", text |-> <<97, 117, 116, 111, 114, 101, 97, 100, 111, 110, 108, 121>>],
       [name |-> "Bool", text |-> <<98, 111, 111, 108>>],
       [name |-> "Else", text |-> <<101, 108, 115, 101>>],
       [name |-> "ElseIf", text |-> <<101, 108, 115, 101, 105, 102>>],
       [name |-> "EndEvent", text |-> <<101, 110, 100, 101, 118, 101, 110, 116>>],
       [name |-> "EndFunction", text |-> <<101, 110, 100, 102, 117, 110, 99, 116, 105, 111, 110>>],
       [name |-> "EndIf", text |-> <<101, 110, 100, 105, 102>>],
       [name |-> "EndProperty", text |-> <<101, 110, 100, 112, 114, 111, 112, 101, 114, 116, 121>>],
       [name |-> "EndState", text |-> <<101, 110, 100, 115, 116, 97, 116, 101>>],
       [name |-> "EndWhile", text |-> <<101, 110, 100, 119, 104, 105, 108, 101>>],
       [name |-> "Event", text |-> <<101, 118, 101, 110, 116>>],
       [name |-> "Extends", text |-> <<101, 120, 116, 101, 110, 100, 115>>],
       [name |-> "False", text |-> <<102, 97, 108, 115, 101>>],
       [name |-> "Float", text |-> <<102, 108, 111, 97, 116>>],
       [name |-> "Function", text |-> <<102, 117, 110, 99, 116, 105, 111, 110>>],
       [name |-> "Global", text |-> <<103, 108, 111, 98, 97, 108>>],
       [name |-> "If", text |-> <<105, 102>>],
       [name |-> "Import", text |-> <<105, 109, 112, 111, 114, 116>>],
       [name |-> "Int", text |-> <<105, 110, 116>>],
       [name |-> "Length", text |-> <<108, 101, 110, 103, 116, 104>>],
       [name |-> "Native", text |-> <<110, 97, 116, 105, 118, 101>>],
       [name |-> "New", text |-> <<110, 101, 119>>],
       [name |-> "None", text |-> <<110, 111, 110, 101>>],
       [name |-> "Parent", text |-> <<112, 97, 114, 101, 110, 116>>],
       [name |-> "Property", text |-> <<112, 114, 111, 112, 101, 114, 116, 121>>],
       [name |-> "Return", text |-> <<114, 101, 116, 117, 114, 110>>],
       [name |-> "ScriptName", text |-> <<115, 99, 114, 105, 112, 116, 110, 97, 109, 101>>],
       [name |-> "_Self", text |-> <<115, 101, 108, 102>>],
       [name |-> "State", text |-> <<115, 116, 97, 116, 101>>],
       [name |-> "String", text |-> <<115, 116, 114, 105, 110, 103>>],
       [name |-> "True", text |-> <<116, 114, 117, 101>>],
       [name |-> "While", text |-> <<119, 104, 105, 108, 101>>],
       [name |-> "BetaOnly", text |-> <<98, 101, 116, 97, 111, 110, 108, 121>>],
       [name |-> "Const", text |-> <<99, 111, 110, 115, 116>>],
       [name |-> "CustomEvent", text |-> <<99, 117, 115, 116, 111, 109, 101, 118, 101, 110, 116>>],
       [name |-> "CustomEventName", text |-> <<99, 117, 115, 116, 111, 109, 101, 118, 101, 110, 116, 110, 97, 109, 101>>],
       [name |-> "DebugOnly", text |-> <<100, 101, 98, 117, 103, 111, 110, 108, 121>>],
       [name |-> "EndGroup", text |-> <<101, 110, 100, 103, 114, 111, 117, 112>>],
       [name |-> "EndStruct", text |-> <<101, 110, 100, 115, 116, 114, 117, 99, 116>>],
       [name |-> "Group", text |-> <<103, 114, 111, 117, 112>>],
       [name |-> "Is", text |-> <<105, 115>>],
       [name |-> "ScriptEventName", text |-> <<115, 99, 114, 105, 112, 116, 101, 118, 101, 110, 116, 110, 97, 109, 101>>],
       [name |-> "Struct", text |-> <<115, 116, 114, 117, 99, 116>>],
       [name |-> "StructVarName", text |-> <<115, 116, 114, 117, 99, 116, 118, 97, 114, 110, 97, 109, 101>>],
       [name |-> "Var", text |-> <<118, 97, 114>>] >>

\* KwKind::from_str: the variant whose serialization is s, "" for Err
KwKind_from_str(s) ==
    IF \E i \in 1..Len(KwTable) : KwTable[i].text = s
    THEN KwTable[CHOOSE i \in 1..Len(KwTable) : KwTable[i].text = s].name
    ELSE ""

RECURSIVE ident_loop(_, _, _)
ident_loop(bytes, value, g) ==
    IF is_id_continue(peek_byte(bytes), g)
    THEN ident_loop(Tail(bytes), Append(value, Head(bytes)), g)
    ELSE [value |-> value, rest |-> bytes]

\* Lexer::ident(first_char), called with `bytes` left
ident(first_char, bytes, g) ==
    LET l == ident_loop(bytes, <<first_char>>, g)
        kind == KwKind_from_str(to_ascii_lowercase(l.value))
    IN  IF kind # "" THEN [Ok("Keyword", l.rest) EXCEPT !.kw = kind]
        ELSE OkText("Ident", l.value, l.rest)

\* Lexer::next_token with `bytes` left: the token kind and payload, the bytes
\* left afterwards and the diagnostic asked for
next_token(bytes, g, initial_len) ==
    LET start_pos == cur_pos(initial_len, bytes)
        first_byte == IF bytes = <<>> THEN EOF_CHAR ELSE Head(bytes)
        r == next_byte(bytes)
        p == peek_byte(r)
    IN  IF first_byte = EOF_CHAR THEN Ok("Eof", r)
        ELSE IF is_whitespace(first_byte) THEN whitespace(r)
        ELSE IF is_newline_start(first_byte) THEN newline(first_byte, r)
        ELSE IF first_byte = Ch.lbrace THEN documentation(r, initial_len)
        ELSE IF first_byte = Ch.semi
        THEN IF p = Ch.slash THEN block_comment(r, initial_len) ELSE line_comment(r)
        ELSE IF first_byte = Ch.quote THEN string(r, initial_len)
        ELSE IF is_digit(first_byte) THEN number(first_byte, r, initial_len)
        ELSE IF is_id_start(first_byte) THEN ident(first_byte, r, g)
        ELSE IF first_byte = Ch.lpar THEN Ok("LParen", r)
        ELSE IF first_byte = Ch.rpar THEN Ok("RParen", r)
        ELSE IF first_byte = Ch.lsq THEN Ok("LSquare", r)
        ELSE IF first_byte = Ch.rsq THEN Ok("RSquare", r)
        ELSE IF first_byte = Ch.dot THEN Ok("Dot", r)
        ELSE IF first_byte = Ch.comma THEN Ok("Comma", r)
        ELSE IF first_byte = Ch.minus
        THEN IF p = Ch.eq THEN Ok("MinusEq", next_byte(r))
             ELSE IF is_digit(p) THEN number(p, r, initial_len)
             ELSE Ok("Minus", r)
        ELSE IF first_byte = Ch.plus THEN has_equal_next(r, "PlusEq", "Plus")
        ELSE IF first_byte = Ch.eq THEN has_equal_next(r, "CmpEQ", "Equal")
        ELSE IF first_byte = Ch.bang THEN has_equal_next(r, "CmpNE", "Not")
        ELSE IF first_byte = Ch.star THEN has_equal_next(r, "MultiplyEq", "Multiply")
        ELSE IF first_byte = Ch.slash THEN has_equal_next(r, "DivideEq", "Divide")
        ELSE IF first_byte = Ch.pct THEN has_equal_next(r, "ModuleEq", "Modulo")
        ELSE IF first_byte = Ch.lt THEN has_equal_next(r, "CmpLE", "CmpLT")
        ELSE IF first_byte = Ch.gt THEN has_equal_next(r, "CmpGE", "CmpGT")
        ELSE IF first_byte = Ch.amp
        THEN IF p = Ch.amp THEN Ok("And", next_byte(r))
             ELSE Warning("expected second '&' for binary AND",
                          start_pos, cur_pos(initial_len, r), Ok("And", r))
        ELSE IF first_byte = Ch.pipe
        THEN IF p = Ch.pipe THEN Ok("Or", next_byte(r))
             ELSE Warning("expected second '|' for binary OR",
                          start_pos, cur_pos(initial_len, r), Ok("Or", r))
        ELSE Fatal("unknown lexeme", start_pos, cur_pos(initial_len, r), r)

Token_new_swapped(r, lo, hi) ==
    [kind |-> r.kind, lo |-> hi, hi |-> lo, text |-> r.text, num |-> r.num,
     flag |-> r.flag, kw |-> r.kw, panics |-> lo > hi]

\* Token::new: the token, and whether the constructor panics (lo > hi)
Token_new(r, lo, hi) ==
    [kind |-> r.kind, lo |-> lo, hi |-> hi, text |-> r.text, num |-> r.num,
     flag |-> r.flag, kw |-> r.kw, panics |-> lo > hi]

\* ----------------------------------------------------------------- inputs
\* An input is the concatenation of at most MaxLen fragments of one family.
\* NUL, newline, space, a & | # =
GeneralFragments ==
    {<<0>>, <<10>>, <<32>>, <<97>>, <<38>>, <<124>>, <<35>>, <<61>>}

\* quote, a \ n, newline, space, e-acute (two bytes)
StringFragments ==
    {<<34>>, <<97>>, <<92>>, <<110>>, <<10>>, <<32>>, <<195, 169>>}

\* - 5 0 x F .
NumberFragments ==
    {<<45>>, <<53>>, <<48>>, <<120>>, <<70>>, <<46>>}

\* 0x F 7FFFFFF 214748364 8 5 -
RangeFragments ==
    {<<48, 120>>, <<70>>, <<55, 70, 70, 70, 70, 70, 70>>,
     <<50, 49, 52, 55, 52, 56, 51, 54, 52>>, <<56>>, <<53>>, <<45>>}

\* i f I F : 1
IdentFragments ==
    {<<105>>, <<102>>, <<73>>, <<70>>, <<58>>, <<49>>}

\* foo bar : ScriptName scriptname SCRIPTNAME Var
KeywordFragments ==
    {<<102, 111, 111>>, <<98, 97, 114>>, <<58>>,
     <<83, 99, 114, 105, 112, 116, 78, 97, 109, 101>>,
     <<115, 99, 114, 105, 112, 116, 110, 97, 109, 101>>,
     <<83, 67, 82, 73, 80, 84, 78, 65, 77, 69>>, <<86, 97, 114>>}

\* carriage return, newline, a, space
NewlineFragments ==
    {<<13>>, <<10>>, <<97>>, <<32>>}

\* { } ; / newline a e-acute (two bytes)
CommentFragments ==
    {<<123>>, <<125>>, <<59>>, <<47>>, <<10>>, <<97>>, <<195, 169>>}

\* 5. . 5 space
FloatFragments ==
    {<<53, 46>>, <<46>>, <<53>>, <<32>>}

Topics ==
    {GeneralFragments, StringFragments, NumberFragments, RangeFragments,
     IdentFragments, KeywordFragments, NewlineFragments, CommentFragments,
     FloatFragments}

RECURSIVE Words(_, _)
Words(frags, k) ==
    IF k = 0 THEN {<<>>}
    ELSE LET shorter == Words(frags, k - 1) IN
         shorter \cup {w \o fr : w \in shorter, fr \in frags}

Inputs == UNION {Words(t, MaxLen) : t \in Topics}

\* the sources of the sessions that call emit directly: lines of 0, 1 or 2
\* bytes, the last one with or without its newline
LineFragments ==
    {<<10>>, <<97>>, <<97, 10>>, <<97, 97, 10>>}

LineInputs == Words(LineFragments, MaxLen)

\* ------------------------------------------------------------------ state
VARIABLES
    content,      \* Source.content of the session
    game,         \* ParserSession.game
    initial_len,  \* Lexer.initial_len
    bytes,        \* Lexer.bytes: the bytes not consumed yet
    tokens,       \* the tokens next_token returned, in order
    diags,        \* the diagnostics handed to ErrorBuilder::emit, in order
    status,       \* "running", or how the last call ended without returning
    query,        \* the last direct call of a Source method and its result
    report        \* the last direct call of ErrorBuilder::emit and its result

vars == <<content, game, initial_len, bytes, tokens, diags, status, query, report>>

NoQuery == [asked |-> FALSE, offset |-> 0, hang |-> FALSE, line |-> 0, col |-> 0]

NoReport ==
    [asked |-> FALSE, lo |-> 0, hi |-> 0, outcome |-> "", source |-> <<>>,
     start |-> 0, end |-> 0]

\* ParserSession::from_string and Lexer::from_sess
Init ==
    /\ content \in Inputs
    /\ game \in Games
    /\ initial_len = Len(content)
    /\ bytes = content
    /\ tokens = <<>>
    /\ diags = <<>>
    /\ status = "running"
    /\ query = NoQuery
    /\ report = NoReport

\* a diagnostic as handed to emit by the call that started at offset `at`
Diag(r, e, at) ==
    [at |-> at, fatal |-> r.fatal, title |-> r.title, lo |-> r.lo, hi |-> r.hi,
     outcome |-> e.outcome, source |-> e.source, start |-> e.start, end |-> e.end]

\* the calls made so far with no bytes left
EofCalls ==
    Cardinality({i \in 1..Len(tokens) :
                    tokens[i].kind = "Eof" /\ tokens[i].lo = initial_len})

\* One call of Lexer::next_token.  A call whose fatal diagnostic unwinds
\* ("fatal"), whose emit does not return ("hung") or that panics ("panic")
\* returns no token, and the scan is over.  overflow_checks is the build's
\* setting for arithmetic overflow.
NextToken ==
    /\ status = "running"
    /\ EofCalls < MaxEofCalls
    /\ \E overflow_checks \in BOOLEAN :
        LET start_pos == cur_pos(initial_len, bytes)
            r == next_token(bytes, game, initial_len)
            e == emit(content, r.lo, r.hi, r.fatal)
            tok == Token_new(r, start_pos, cur_pos(initial_len, r.rest))
        IN  /\ bytes' = r.rest
            /\ IF r.emits /\ r.lo < 0 /\ overflow_checks
               THEN /\ status' = "panic"
                    /\ UNCHANGED <<tokens, diags>>
               ELSE IF r.emits /\ e.outcome # "returned"
               THEN /\ status' = (CASE e.outcome = "unwound" -> "fatal"
                                    [] e.outcome = "hung" -> "hung"
                                    [] OTHER -> "panic")
                    /\ diags' = Append(diags, Diag(r, e, start_pos))
                    /\ UNCHANGED tokens
               ELSE /\ diags' = IF r.emits THEN Append(diags, Diag(r, e, start_pos)) ELSE diags
                    /\ IF tok.panics
                       THEN status' = "panic" /\ UNCHANGED tokens
                       ELSE status' = "running" /\ tokens' = Append(tokens, tok)
    /\ UNCHANGED <<content, game, initial_len, query, report>>

Next == NextToken

Spec == Init /\ [][Next]_vars

\* One call of Source::lineno_from_offset on the session's source, with an
\* offset inside the content or at its end.
LinenoQuery ==
    /\ \E offset \in 0..Len(content) :
        LET r == lineno_from_offset(content, offset) IN
        query' = [asked |-> TRUE, offset |-> offset, hang |-> r.hang,
                  line |-> r.line, col |-> r.col]
    /\ UNCHANGED <<content, game, initial_len, bytes, tokens, diags, status, report>>

NextSource == LinenoQuery

\* the sessions with calls of the Source methods alone
SpecSource == Init /\ [][NextSource]_vars

\* One call of ErrorBuilder::emit for a warning with a span lo <= hi inside
\* the session's source.
EmitQuery ==
    /\ \E lo \in 0..Len(content) :
       \E hi \in lo..Len(content) :
        LET e == emit(content, lo, hi, FALSE) IN
        report' = [asked |-> TRUE, lo |-> lo, hi |-> hi, outcome |-> e.outcome,
                   source |-> e.source, start |-> e.start, end |-> e.end]
    /\ UNCHANGED <<content, game, initial_len, bytes, tokens, diags, status, query>>

NextEmit == EmitQuery

\* ParserSession::from_string for a source made of short lines
InitEmit ==
    /\ content \in LineInputs
    /\ game \in Games
    /\ initial_len = Len(content)
    /\ bytes = content
    /\ tokens = <<>>
    /\ diags = <<>>
    /\ status = "running"
    /\ query = NoQuery
    /\ report = NoReport

\* the sessions with calls of ErrorBuilder::emit alone
SpecEmit == InitEmit /\ [][NextEmit]_vars

\* ------------------------------------------------------------ properties
\* the end offset of the last token returned (0 before the first)
LastHi == IF tokens = <<>> THEN 0 ELSE tokens[Len(tokens)].hi

\* the call that did not return started where the last token ended
Aborted == status # "running"

\* the offsets at which a next_token call has started so far
CallStarts ==
    {tokens[i].lo : i \in 1..Len(tokens)} \cup (IF Aborted THEN {LastHi} ELSE {})

\* the token returned by the call that started at offset q, as a set
TokensAt(q) == {tokens[i] : i \in {j \in 1..Len(tokens) : tokens[j].lo = q}}

ByteAt(q) == IF q < initial_len THEN content[q + 1] ELSE -1

\* C1: the first token starts at offset 0, every later token starts where
\* the previous one ended, and every token has lo <= hi <= len(content).
C1_Contiguous ==
    /\ tokens # <<>> => tokens[1].lo = 0
    /\ \A i \in 1..Len(tokens) :
        /\ tokens[i].lo <= tokens[i].hi
        /\ tokens[i].hi <= Len(content)
        /\ i > 1 => tokens[i].lo = tokens[i - 1].hi

C1_Witness ==
    /\ status = "running"
    /\ Len(tokens) >= 3
    /\ tokens[2].hi - tokens[2].lo >= 2
    /\ tokens[3].kind # "Eof"

\* C2: the first end-of-input token of the stream ends at len(content), so
\* the byte ranges of the tokens up to it make up the whole input.
C2_RoundTrip ==
    \A i \in 1..Len(tokens) :
        (tokens[i].kind = "Eof" /\ \A j \in 1..(i - 1) : tokens[j].kind # "Eof")
            => tokens[i].hi = Len(content)

\* C3: with no unconsumed bytes left, a next_token call returns an Eof token
\* with lo = hi = len(content), emits no diagnostic and leaves the cursor.
C3_EofIdempotent ==
    [][(status = "running" /\ bytes = <<>>) =>
        /\ tokens' = Append(tokens, Token_new(Ok("Eof", <<>>), Len(content), Len(content)))
        /\ ~tokens'[Len(tokens')].panics
        /\ diags' = diags
        /\ bytes' = bytes
        /\ status' = "running"]_vars

C3_Witness ==
    /\ Len(content) > 0
    /\ Len(tokens) >= 3
    /\ tokens[Len(tokens)].kind = "Eof"
    /\ tokens[Len(tokens)].lo = Len(content)
    /\ tokens[Len(tokens) - 1].kind = "Eof"
    /\ tokens[Len(tokens) - 1].lo = Len(content)
    /\ bytes = <<>>

\* C4: a call that emits a fatal diagnostic returns no token and ends the
\* scan; a call that emits a warning still returns its token.
C4_FatalAbortsWarningReturns ==
    \A i \in 1..Len(diags) :
        IF diags[i].fatal
        THEN /\ Aborted
             /\ i = Len(diags)
             /\ TokensAt(diags[i].at) = {}
        ELSE TokensAt(diags[i].at) # {}

\* C5: a lone `&` (or `|`) gives one And (Or) token over that byte and exactly
\* one warning, and the scan goes on; `&&` (`||`) gives one two-byte token
\* and no diagnostic.
C5_LoneAmpersand ==
    \A q \in CallStarts :
        \A op \in {Ch.amp, Ch.pipe} :
            ByteAt(q) = op =>
                LET kind == IF op = Ch.amp THEN "And" ELSE "Or"
                    ds == {i \in 1..Len(diags) : diags[i].at = q}
                IN  IF ByteAt(q + 1) = op
                    THEN /\ \E t \in TokensAt(q) : t.kind = kind /\ t.hi = q + 2
                         /\ ds = {}
                    ELSE /\ \E t \in TokensAt(q) : t.kind = kind /\ t.hi = q + 1
                         /\ Cardinality(ds) = 1
                         /\ \A i \in ds : ~diags[i].fatal /\ diags[i].outcome = "returned"
                         /\ ~(Aborted /\ LastHi = q)

\* the last diagnostic handed to emit is the fatal one titled `title`, it was
\* rendered and unwound the call that started at q, which returned no token
RaisedFatal(q, title) ==
    /\ status = "fatal"
    /\ LastHi = q
    /\ TokensAt(q) = {}
    /\ diags # <<>>
    /\ diags[Len(diags)].fatal
    /\ diags[Len(diags)].at = q
    /\ diags[Len(diags)].title = title
    /\ diags[Len(diags)].outcome = "unwound"

\* the bytes of content from offset q on
From(q) == SubSeq(content, q + 1, Len(content))

\* the string opened by the quote at q ends at a newline or at the end of input
UnterminatedAt(q) ==
    /\ ByteAt(q) = Ch.quote
    /\ string_loop(From(q + 1), <<>>).why \in {"eof", "newline"}

\* C6: a string that reaches a newline or the end of input before its closing
\* quote raises the fatal "unterminated string" diagnostic, with a span that
\* starts at the opening quote and lies inside the input; no token is returned.
C6_UnterminatedString ==
    \A q \in CallStarts :
        UnterminatedAt(q) =>
            /\ RaisedFatal(q, "unterminated string")
            /\ diags[Len(diags)].lo = q
            /\ diags[Len(diags)].lo <= diags[Len(diags)].hi
            /\ diags[Len(diags)].hi <= Len(content)

\* the longest run of decimal digits at the head of bs
RECURSIVE DigitRun(_)
DigitRun(bs) ==
    IF bs # <<>> /\ is_digit(Head(bs)) THEN <<Head(bs)>> \o DigitRun(Tail(bs))
    ELSE <<>>

RECURSIVE HexRun(_)
HexRun(bs) ==
    IF bs # <<>> /\ is_hex_digit(Head(bs)) THEN <<Head(bs)>> \o HexRun(Tail(bs))
    ELSE <<>>

\* C7: `-` followed by a digit string d in the 32-bit range (and not by a `.`)
\* is one integer literal of value -d spanning the `-` and the digits.
C7_NegativeLiteral ==
    \A q \in CallStarts :
        LET d == DigitRun(From(q + 1)) IN
        (/\ ByteAt(q) = Ch.minus
         /\ d # <<>>
         /\ ByteAt(q + 1 + Len(d)) # Ch.dot
         /\ from_str_radix(d, 10).ok)
            => \E t \in TokensAt(q) :
                /\ t.kind = "Integer"
                /\ t.num = 0 - from_str_radix(d, 10).val
                /\ t.hi = q + 1 + Len(d)

\* C8: `0x` followed by hex digits whose value fits an i32 is an integer
\* literal of that value with the hex flag; `0x` followed by no hex digit or
\* by too large a value raises the fatal "could not parse hex literal"
\* diagnostic and no token is returned.
C8_HexLiteral ==
    \A q \in CallStarts :
        LET h == HexRun(From(q + 2)) IN
        (ByteAt(q) = Ch.d0 /\ ByteAt(q + 1) = Ch.x) =>
            IF from_str_radix(h, 16).ok
            THEN \E t \in TokensAt(q) :
                    /\ t.kind = "Integer"
                    /\ t.num = from_str_radix(h, 16).val
                    /\ t.flag
                    /\ t.hi = q + 2 + Len(h)
            ELSE RaisedFatal(q, "could not parse hex literal")

\* the input foo:bar
FooColonBar == <<102, 111, 111, 58, 98, 97, 114>>

IsWord(t) == t.kind \in {"Ident", "Keyword"}

\* C9: `:` continues an identifier under FO4 only and never starts one:
\* foo:bar is one 7-byte identifier under FO4, and under TESV the identifier
\* foo followed by the fatal "unknown lexeme" diagnostic on the `:`.
C9_ColonGate ==
    /\ \A i \in 1..Len(tokens) :
        IsWord(tokens[i]) =>
            /\ ByteAt(tokens[i].lo) # Ch.colon
            /\ game = "TESV" =>
                \A k \in tokens[i].lo..(tokens[i].hi - 1) : ByteAt(k) # Ch.colon
            /\ game = "FO4" => ByteAt(tokens[i].hi) # Ch.colon
    /\ \A q \in CallStarts :
        ByteAt(q) = Ch.colon =>
            /\ TokensAt(q) = {}
            /\ Aborted
            /\ diags[Len(diags)].at = q
            /\ diags[Len(diags)].fatal
            /\ diags[Len(diags)].title = "unknown lexeme"
            /\ diags[Len(diags)].lo = q
            /\ diags[Len(diags)].hi = q + 1
    /\ (content = FooColonBar /\ tokens # <<>>) =>
        /\ tokens[1].kind = "Ident"
        /\ tokens[1].lo = 0
        /\ game = "FO4" => tokens[1].hi = 7 /\ tokens[1].text = FooColonBar
        /\ game = "TESV" =>
            /\ tokens[1].hi = 3
            /\ tokens[1].text = SubSeq(FooColonBar, 1, 3)
            /\ Len(tokens) = 1
            /\ Aborted => RaisedFatal(3, "unknown lexeme")

C9_Witness ==
    /\ content = FooColonBar
    /\ game = "TESV"
    /\ Len(tokens) = 1
    /\ tokens[1].hi = 3
    /\ status = "fatal"
    /\ diags[1].title = "unknown lexeme"

\* ASCII case folding, and the keyword (if any) spelled by a folded text
FoldCase(t) == [i \in 1..Len(t) |-> IF 65 <= t[i] /\ t[i] <= 90 THEN t[i] + 32 ELSE t[i]]

KeywordsSpelled(t) ==
    {KwTable[i].name : i \in {j \in 1..Len(KwTable) : KwTable[j].text = FoldCase(t)}}

\* C10: a text that spells a keyword in any mix of upper and lower case gives
\* that keyword's token; any other identifier-shaped text gives an identifier
\* token that carries the text as written.
C10_KeywordCase ==
    /\ \A q \in CallStarts :
        (is_id_start(ByteAt(q)) /\ ~(Aborted /\ LastHi = q)) =>
            \E t \in TokensAt(q) : IsWord(t) /\ t.hi > q
    /\ \A i \in 1..Len(tokens) :
        IsWord(tokens[i]) =>
            LET txt == SubSeq(content, tokens[i].lo + 1, tokens[i].hi) IN
            IF KeywordsSpelled(txt) # {}
            THEN tokens[i].kind = "Keyword" /\ KeywordsSpelled(txt) = {tokens[i].kw}
            ELSE tokens[i].kind = "Ident" /\ tokens[i].text = txt

\* the input starts with SCRIPTNAME in capitals, lexed as the ScriptName keyword
C10_Witness ==
    /\ Len(tokens) >= 1
    /\ tokens[1].kind = "Keyword"
    /\ tokens[1].kw = "ScriptName"
    /\ SubSeq(content, 1, 2) = <<83, 67>>

\* the offset at which the line holding `offset` starts: right after the last
\* newline before it
LineStart(offset) ==
    LET nls == {i \in 1..offset : content[i] = Ch.lf} IN
    IF nls = {} THEN 0 ELSE CHOOSE i \in nls : \A j \in nls : j <= i

NewlinesBefore(offset) == Cardinality({i \in 1..offset : content[i] = Ch.lf})

\* C11: for every offset in 0..len(content) lineno_from_offset terminates and
\* returns the 1-based line of the offset and its distance from the start of
\* that line.
C11_LinenoTerminates ==
    query.asked =>
        /\ ~query.hang
        /\ query.line = 1 + NewlinesBefore(query.offset)
        /\ query.col = query.offset - LineStart(query.offset)

\* the bytes with a dispatch rule of their own in next_token
Dispatched(b) ==
    \/ is_whitespace(b)
    \/ is_newline_start(b)
    \/ b \in {Ch.lbrace, Ch.semi, Ch.quote}
    \/ is_digit(b)
    \/ is_id_start(b)
    \/ b \in {Ch.lpar, Ch.rpar, Ch.lsq, Ch.rsq, Ch.dot, Ch.comma}
    \/ b \in {Ch.minus, Ch.plus, Ch.eq, Ch.bang, Ch.star, Ch.slash, Ch.pct,
              Ch.lt, Ch.gt, Ch.amp, Ch.pipe}

\* C12: a byte with no dispatch rule raises the fatal "unknown lexeme"
\* diagnostic and gives no token; an Eof token is returned only when no
\* unconsumed bytes remain.
C12_UnknownLexeme ==
    /\ \A q \in CallStarts :
        (q < Len(content) /\ ~Dispatched(ByteAt(q))) => RaisedFatal(q, "unknown lexeme")
    /\ \A i \in 1..Len(tokens) :
        tokens[i].kind = "Eof" => tokens[i].lo = Len(content)

\* C13: a Newline token has the CRLF flag exactly when it is the two bytes
\* \r\n; \r followed by \n is one two-byte token, a lone \n and a lone \r are
\* one-byte tokens.
C13_CrlfFlag ==
    \A q \in CallStarts :
        is_newline_start(ByteAt(q)) =>
            LET crlf == ByteAt(q) = Ch.cr /\ ByteAt(q + 1) = Ch.lf IN
            \E t \in TokensAt(q) :
                /\ t.kind = "Newline"
                /\ t.hi = IF crlf THEN q + 2 ELSE q + 1
                /\ t.flag = crlf

\* the least offset in from..len(content) at which P holds, len(content) if none
Least(S) == CHOOSE i \in S : \A j \in S : i <= j

FirstByte(from, bs) ==
    LET S == {i \in from..(Len(content) - 1) : ByteAt(i) \in bs} IN
    IF S = {} THEN Len(content) ELSE Least(S)

\* the offset of the first `/;` at or after `from`, len(content) if none
FirstSlashSemi(from) ==
    LET S == {i \in from..(Len(content) - 2) :
                ByteAt(i) = Ch.slash /\ ByteAt(i + 1) = Ch.semi} IN
    IF S = {} THEN Len(content) ELSE Least(S)

\* the bytes of content in [lo, hi)
Slice(lo, hi) == SubSeq(content, lo + 1, hi)

\* a token of that kind over [q, hi) whose text is the bytes [from, to)
Carries(q, kind, hi, from, to) ==
    \E t \in TokensAt(q) :
        /\ t.kind = kind
        /\ t.hi = hi
        /\ Utf8Encode(t.text) = Slice(from, to)

\* C14: a documentation block ends at the first `}`, a block comment at the
\* first `/;`, a line comment before the next newline or the end of input;
\* the span includes the delimiters and the text is the bytes between them;
\* the token after a line comment is the newline or the end-of-input token.
C14_CommentText ==
    \A q \in CallStarts :
        /\ ByteAt(q) = Ch.lbrace =>
            LET e == FirstByte(q + 1, {Ch.rbrace}) IN
            e < Len(content) => Carries(q, "Doc", e + 1, q + 1, e)
        /\ (ByteAt(q) = Ch.semi /\ ByteAt(q + 1) = Ch.slash) =>
            LET e == FirstSlashSemi(q + 2) IN
            e < Len(content) => Carries(q, "Comment", e + 2, q + 2, e)
        /\ (ByteAt(q) = Ch.semi /\ ByteAt(q + 1) # Ch.slash) =>
            LET e == FirstByte(q + 1, {Ch.cr, Ch.lf}) IN
            /\ Carries(q, "Comment", e, q + 1, e)
            /\ \A t \in TokensAt(e) :
                t.kind = (IF e = Len(content) THEN "Eof" ELSE "Newline")

\* the variants listed under "FO4 keywords" in KwKind
FO4Keywords ==
    {"BetaOnly", "Const", "CustomEvent", "CustomEventName", "DebugOnly",
     "EndGroup", "EndStruct", "Group", "Is", "ScriptEventName", "Struct",
     "StructVarName", "Var"}

\* C15: a word that is a keyword of the FO4 dialect only is a keyword token
\* under FO4 and an identifier token under TESV.
C15_DialectKeywords ==
    \A i \in 1..Len(tokens) :
        LET txt == Slice(tokens[i].lo, tokens[i].hi) IN
        (IsWord(tokens[i]) /\ KeywordsSpelled(txt) \cap FO4Keywords # {}) =>
            IF game = "FO4"
            THEN tokens[i].kind = "Keyword" /\ tokens[i].kw \in KeywordsSpelled(txt)
            ELSE tokens[i].kind = "Ident" /\ tokens[i].text = txt

\* a decimal integer literal starts at q: a digit, not the 0 of `0x`, and the
\* run of digits is not followed by a `.`
DecimalIntegerAt(q) ==
    /\ is_digit(ByteAt(q))
    /\ ~(ByteAt(q) = Ch.d0 /\ ByteAt(q + 1) = Ch.x)
    /\ ByteAt(q + Len(DigitRun(From(q)))) # Ch.dot

\* the digits of an integer literal token, without its sign
DigitsOf(t) ==
    IF ByteAt(t.lo) = Ch.minus THEN Slice(t.lo + 1, t.hi) ELSE Slice(t.lo, t.hi)

\* C16: a decimal integer literal token carries the value of its digits, in
\* the i32 range, with the hex flag false; a run of digits above the range
\* raises the fatal "could not parse integer literal" diagnostic over exactly
\* the literal's bytes.
C16_DecimalInteger ==
    /\ \A i \in 1..Len(tokens) :
        (tokens[i].kind = "Integer" /\ ~tokens[i].flag) =>
            LET v == from_str_radix(DigitsOf(tokens[i]), 10) IN
            /\ v.ok
            /\ tokens[i].num \in {v.val, 0 - v.val}
    /\ \A q \in CallStarts :
        DecimalIntegerAt(q) =>
            LET d == DigitRun(From(q))
                v == from_str_radix(d, 10)
            IN  IF v.ok
                THEN \E t \in TokensAt(q) :
                        /\ t.kind = "Integer"
                        /\ ~t.flag
                        /\ t.num = v.val
                        /\ t.hi = q + Len(d)
                ELSE /\ RaisedFatal(q, "could not parse integer literal")
                     /\ diags[Len(diags)].lo = q
                     /\ diags[Len(diags)].hi = q + Len(d)

\* a decimal literal starts at q: a digit that is not the 0 of `0x`
DecimalAt(q) ==
    is_digit(ByteAt(q)) /\ ~(ByteAt(q) = Ch.d0 /\ ByteAt(q + 1) = Ch.x)

\* where the digits at q end, and whether a `.` follows them
IntegerEnd(q) == q + Len(DigitRun(From(q)))

HasDot(q) == ByteAt(IntegerEnd(q)) = Ch.dot

\* the end of digits, one `.`, digits
OneDotEnd(q) ==
    IF HasDot(q) THEN IntegerEnd(q) + 1 + Len(DigitRun(From(IntegerEnd(q) + 1)))
    ELSE IntegerEnd(q)

\* C17: a decimal literal takes at most one `.`: it ends before a second `.`,
\* which is left for the next token, and it is a float exactly when it
\* contains that one `.`.
C17_OneDot ==
    \A q \in CallStarts :
        DecimalAt(q) =>
            /\ HasDot(q) => \E t \in TokensAt(q) : t.kind = "Float"
            /\ \A t \in TokensAt(q) :
                /\ t.hi = OneDotEnd(q)
                /\ (t.kind = "Float") <=> HasDot(q)

\* the character an escape target stands for, -1 for a byte that is no target
EscapeTarget(b) ==
    IF b = Ch.n THEN Ch.lf
    ELSE IF b = Ch.t THEN Ch.tab
    ELSE IF b = Ch.bslash THEN Ch.bslash
    ELSE IF b = Ch.quote THEN Ch.quote
    ELSE -1

\* The body of a string literal read from offset p on, escapes taken as two
\* bytes: how it ends ("closed", "open" or "escape"), where (the offset of the
\* closing quote, of the newline or end of input, or of the backslash), and
\* the value so far
RECURSIVE StringBody(_, _)
StringBody(p, value) ==
    LET b == ByteAt(p) IN
    IF p >= Len(content) \/ is_newline_start(b)
    THEN [why |-> "open", at |-> p, value |-> value]
    ELSE IF b = Ch.quote THEN [why |-> "closed", at |-> p, value |-> value]
    ELSE IF b = Ch.bslash
    THEN IF EscapeTarget(ByteAt(p + 1)) = -1
         THEN [why |-> "escape", at |-> p, value |-> value]
         ELSE StringBody(p + 2, Append(value, EscapeTarget(ByteAt(p + 1))))
    ELSE StringBody(p + 1, Append(value, b))

\* C18: in a string literal a backslash before n, t, backslash or quote is one
\* two-byte escape that appends the character and does not close the string;
\* a backslash before any other byte or before the end of input raises the
\* fatal "invalid escape character" diagnostic over the two bytes of the
\* escape sequence, and no string token is returned.
C18_StringEscapes ==
    \A q \in CallStarts :
        ByteAt(q) = Ch.quote =>
            LET s == StringBody(q + 1, <<>>) IN
            /\ s.why = "closed" =>
                \E t \in TokensAt(q) :
                    t.kind = "Str" /\ t.hi = s.at + 1 /\ t.text = s.value
            /\ s.why = "escape" =>
                /\ RaisedFatal(q, "invalid escape character")
                /\ diags[Len(diags)].lo = s.at
                /\ diags[Len(diags)].hi = s.at + 2

\* a documentation block opened at q with no `}` after it, a block comment
\* opened at q with no `/;` after it
OpenDocAt(q) ==
    ByteAt(q) = Ch.lbrace /\ FirstByte(q + 1, {Ch.rbrace}) = Len(content)

OpenBlockAt(q) ==
    /\ ByteAt(q) = Ch.semi
    /\ ByteAt(q + 1) = Ch.slash
    /\ FirstSlashSemi(q + 2) = Len(content)

\* the offset of the first newline at or after `from`, `from` itself if none
NewlineOrOpen(from) ==
    LET n == FirstByte(from, {Ch.lf}) IN
    IF n < Len(content) THEN n ELSE from

\* C19: an unterminated documentation block and an unterminated block comment
\* raise a fatal diagnostic and yield no token; the span starts at the opening
\* delimiter and ends at the first newline of the partial content, or right
\* after the opening delimiter when there is none.
C19_UnterminatedComment ==
    \A q \in CallStarts :
        /\ OpenDocAt(q) =>
            /\ RaisedFatal(q, "unterminated documentation block")
            /\ diags[Len(diags)].lo = q
            /\ diags[Len(diags)].hi = NewlineOrOpen(q + 1)
        /\ OpenBlockAt(q) =>
            /\ RaisedFatal(q, "unterminated block comment")
            /\ diags[Len(diags)].lo = q
            /\ diags[Len(diags)].hi = NewlineOrOpen(q + 2)

\* C20: every span the scanner passes to a diagnostic has
\* 0 <= lo <= hi <= len(content), and no call panics on an unsigned underflow
\* while computing lo.
C20_SpansInside ==
    /\ status # "panic"
    /\ \A i \in 1..Len(diags) :
        /\ 0 <= diags[i].lo
        /\ diags[i].lo <= diags[i].hi
        /\ diags[i].hi <= Len(content)

\* C21: when emit returns, the block is the source lines from lo's line on,
\* start is lo's offset inside the block and end is hi's offset inside the
\* block, so the range selects exactly the bytes content[lo..hi).
C21_HighlightRange ==
    (report.asked /\ report.outcome = "returned") =>
        /\ report.start = report.lo - LineStart(report.lo)
        /\ report.end = report.hi - LineStart(report.lo)
        /\ SubSeq(report.source, report.start + 1, report.end)
               = Slice(report.lo, report.hi)

\* the end-of-input token at the end of the input
EofAtEnd(t) == t.kind = "Eof" /\ t.lo = Len(content)

\* the next_token calls started so far
Calls == Len(tokens) + (IF Aborted THEN 1 ELSE 0)

\* one of the first n calls returned the end-of-input token at the end of
\* the input or ended in a fatal abort
EndedWithin(n) ==
    \/ \E i \in 1..Len(tokens) : i <= n /\ EofAtEnd(tokens[i])
    \/ status = "fatal" /\ Calls <= n

\* C22: every next_token call terminates, every token but the end-of-input
\* token at the end of the input has hi > lo, and the end-of-input token or a
\* fatal abort is reached within len(content) + 1 calls.
C22_Progress ==
    /\ status # "hung"
    /\ \A i \in 1..Len(tokens) :
        tokens[i].hi > tokens[i].lo \/ EofAtEnd(tokens[i])
    /\ (Aborted \/ Calls >= Len(content) + 1) => EndedWithin(Len(content) + 1)
====
